---- MODULE Spec2Model ----
(***************************************************************************)
(* huonw/rand-sketch: three encodings (assoc, stream, typeparam) of        *)
(* constrained uniform sampling over u32, i64 and f64.                     *)
(*                                                                         *)
(* Machine words are scaled: a u32 is modelled as a U32Bits-bit unsigned   *)
(* word and an i64 as an I64Bits-bit two's-complement word, with every     *)
(* operation reduced modulo 2^bits exactly as the hardware reduces it      *)
(* modulo 2^32 and 2^64.  An f64 in [0,1) is a dyadic fraction v / 2^F64Bits*)
(* and every float is stored as its numerator over 2^F64Bits (exact).      *)
(*                                                                         *)
(* Every runner (an encoding used through gen, or through gen_iter) owns   *)
(* a clone of the same entropy source, so the i-th word each clone yields  *)
(* is the same word.  The runners share no state; they are scheduled round *)
(* robin, one raw word per round.                                          *)
(***************************************************************************)
EXTENDS Integers, Sequences, FiniteSets, TLC

\* ---- bounds of the model ------------------------------------------------
U32Bits == 3
I64Bits == 4
F64Bits == 2
F64End == 1
MaxWords == 2

VARIABLES
    ty,       \* the target type of gen / gen_iter: "u32", "i64" or "f64"
    shape,    \* the shape of the range argument: "Full", "HalfOpen", "From", "To"
    lo, hi,   \* its start and end (0 where the shape has none)
    checked,  \* the build: TRUE when arithmetic overflow panics, FALSE when it wraps
    round,    \* how many raw words every clone of the entropy source has yielded
    word,     \* the raw word of the current round
    turn,     \* the runner whose turn it is; 0 between rounds
    pc,       \* per runner: "off" (no impl), "new" (before gen_iter), "ready"
              \* (between draws), "draw" (inside a draw's loop), "panic"
    cons,     \* per runner: the constraint / stream / per-call locals it holds
    ev,       \* per runner: the outcome of its turn in the current round
    nout,     \* per runner: the number of values returned so far
    nread     \* per runner: the number of raw words consumed so far

vars == <<ty, shape, lo, hi, checked, round, word, turn, pc, cons, ev, nout, nread>>

\* ---- machine arithmetic -------------------------------------------------
RECURSIVE Pow2(_)
Pow2(n) == IF n = 0 THEN 1 ELSE 2 * Pow2(n - 1)

\* 2^W for the raw word that feeds each target type
ModU32 == Pow2(U32Bits)
ModI64 == Pow2(I64Bits)
ModF64 == Pow2(F64Bits)
Modulus(t) == CASE t = "u32" -> ModU32
                [] t = "i64" -> ModI64
                [] OTHER     -> ModF64

\* !0 in an unsigned word type
MaxU(M) == M - 1
\* ::std::i64::MIN and ::std::i64::MAX
MinI(M) == -(M \div 2)
MaxI(M) == (M \div 2) - 1

\* `x as u64` of a signed x, and mem::transmute::<i64, u64>
AsU(x, M) == x % M
\* `u as i64` of an unsigned u, and mem::transmute::<u64, i64>
AsI(u, M) == IF u >= M \div 2 THEN u - M ELSE u

\* unsigned wrapping_add
WrappingAddU(a, b, M) == (a + b) % M
\* signed wrapping_add and wrapping_sub
WrappingAddI(a, b, M) == AsI((a + b) % M, M)
WrappingSubI(a, b, M) == AsI((a - b) % M, M)
\* unary minus on an unsigned word (allowed under #[allow(unsigned_negation)]):
\* two's complement
NegU(a, M) == (M - a) % M
\* unary minus on a signed word: -MIN overflows; a build with overflow checks
\* panics there, a build without them wraps to MIN
NegI(a, M, chk) == IF a = MinI(M)
                   THEN [ok |-> ~chk, v |-> MinI(M)]
                   ELSE [ok |-> TRUE, v |-> -a]
\* plain `+` on unsigned words: overflow panics with overflow checks, wraps without
AddU(a, b, M, chk) == IF a + b >= M
                      THEN [ok |-> ~chk, v |-> (a + b) % M]
                      ELSE [ok |-> TRUE, v |-> a + b]
\* `%` on signed words: the remainder has the sign of the dividend
RemI(a, b) == LET d == IF b < 0 THEN -b ELSE b
              IN  IF a >= 0 THEN a % d ELSE -((-a) % d)

\* ---- constraints --------------------------------------------------------
\* One record shape for every constraint / stream / set of per-call locals:
\* tag "Full" | "Bounded" | "FloatNone" | "FloatSome" | "Descr" | "Panic" | "NoCons"
Cons(tag, low, range, zone) == [tag |-> tag, low |-> low, range |-> range, accept_zone |-> zone]
Full == Cons("Full", 0, 0, 0)
Panicked == Cons("Panic", 0, 0, 0)
NoCons == Cons("NoCons", 0, 0, 0)

\* ---- encoding A: assoc.rs -----------------------------------------------
\* mutant of AssocIntoRangeU32: the zone is left at `max % range`
AssocIntoRangeU32ZoneRem(start, end, M) ==
    IF ~(start < end) THEN Panicked
    ELSE LET range == end - start
             max   == MaxU(M)
             zone  == max % range
         IN  Cons("Bounded", start, range, zone)

\* impl Into<IntegerConstraint<u32>> for Range<u32>
AssocIntoRangeU32(start, end, M) ==
    IF ~(start < end) THEN Panicked
    ELSE LET range == end - start
             max   == MaxU(M)
             zone  == max - (max % range)
         IN  Cons("Bounded", start, range, zone)

\* impl Into<IntegerConstraint<u32>> for RangeFrom<u32>
AssocIntoRangeFromU32(start, M) ==
    IF start = 0 THEN Full
    ELSE LET range == NegU(start, M)
             max   == MaxU(M)
             zone  == max - (max % range)
         IN  Cons("Bounded", start, range, zone)

\* impl Into<IntegerConstraint<u32>> for RangeTo<u32>
AssocIntoRangeToU32(end, M) == AssocIntoRangeU32(0, end, M)

\* impl Into<IntegerConstraint<u64>> for Range<i64>
AssocIntoRangeI64(start, end, M) ==
    IF ~(start < end) THEN Panicked
    ELSE LET range == AsU(WrappingSubI(end, start, M), M)
             max   == MaxU(M)
             zone  == max - (max % range)
         IN  Cons("Bounded", AsU(start, M), range, zone)

\* impl Into<IntegerConstraint<u64>> for RangeFrom<i64>
AssocIntoRangeFromI64(start, M, chk) ==
    IF start = MinI(M) THEN Full
    ELSE LET neg == NegI(WrappingAddI(MinI(M), start, M), M, chk)
             range == AsU(neg.v, M)
             max   == MaxU(M)
             zone  == max - (max % range)
         IN  IF ~neg.ok THEN Panicked
             ELSE Cons("Bounded", AsU(start, M), range, zone)

\* impl Into<FloatConstraint<f64>> for RangeFull / Range<f64>: the range is
\* stored verbatim (low = start, range = end), nothing is asserted
AssocIntoRangeF64(start, end) == Cons("FloatSome", start, end, 0)
AssocIntoFullF64 == Cons("FloatNone", 0, 0, 0)

\* constraint.into() as gen and gen_iter call it, by target type and range shape
AssocInto(t, s, l, h, chk) ==
    LET M == Modulus(t) IN
    CASE t = "u32" /\ s = "Full"     -> Full
      [] t = "u32" /\ s = "HalfOpen" -> AssocIntoRangeU32(l, h, M)
      [] t = "u32" /\ s = "From"     -> AssocIntoRangeFromU32(l, M)
      [] t = "u32" /\ s = "To"       -> AssocIntoRangeToU32(h, M)
      [] t = "i64" /\ s = "Full"     -> Full
      [] t = "i64" /\ s = "HalfOpen" -> AssocIntoRangeI64(l, h, M)
      [] t = "i64" /\ s = "From"     -> AssocIntoRangeFromI64(l, M, chk)
      [] t = "f64" /\ s = "Full"     -> AssocIntoFullF64
      [] t = "f64" /\ s = "HalfOpen" -> AssocIntoRangeF64(l, h)

\* The outcome of one pass through a draw loop on raw word v:
\* "val" x (returned x), "rej" (v discarded, loop again) or "panic"
Val(x) == [k |-> "val", x |-> x]
Rej == [k |-> "rej", x |-> 0]
Fault == [k |-> "panic", x |-> 0]
NoEv == [k |-> "none", x |-> 0]

\* mutant of AssocGenU32: the accepted word is added without `% range`
AssocGenU32NoRem(c, v, M) ==
    IF c.tag = "Full" THEN Val(v)
    ELSE IF v < c.accept_zone
         THEN Val(WrappingAddU(c.low, v, M))
         ELSE Rej

\* impl Random for u32: Random::gen, one pass of its loop
AssocGenU32(c, v, M) ==
    IF c.tag = "Full" THEN Val(v)
    ELSE IF v < c.accept_zone
         THEN Val(WrappingAddU(c.low, v % c.range, M))
         ELSE Rej

\* impl Random for i64: Random::gen, one pass of its loop
AssocGenI64(c, v, M) ==
    IF c.tag = "Full" THEN Val(AsI(v, M))
    ELSE IF v < c.accept_zone
         THEN Val(AsI(WrappingAddU(c.low, v % c.range, M), M))
         ELSE Rej

\* impl Random for f64: Random::gen; u = v / 2^F64Bits, values are numerators
AssocGenF64(c, v, M) ==
    IF c.tag = "FloatNone" THEN Val(v)
    ELSE Val(c.low * M + v * (c.range - c.low))

AssocRandomGen(t, c, v) ==
    LET M == Modulus(t) IN
    CASE t = "u32" -> AssocGenU32(c, v, M)
      [] t = "i64" -> AssocGenI64(c, v, M)
      [] t = "f64" -> AssocGenF64(c, v, M)

\* ---- encoding B: stream.rs ----------------------------------------------
\* impl Rand<Range<u32>> for u32: rand
StreamRandRangeU32(start, end, M) ==
    IF ~(start < end) THEN Panicked
    ELSE LET range == end - start
             max   == MaxU(M)
             zone  == max - (max % range)
         IN  Cons("Bounded", start, range, zone)

\* impl Rand<Range<i64>> for i64: rand.  range is an i64, so `max = !0` is the
\* i64 -1 and `max % range` is the signed remainder; the transmute of zone
\* into the i64 field accept_zone keeps the bit pattern
StreamRandRangeI64(start, end, M) ==
    IF ~(start < end) THEN Panicked
    ELSE LET range == WrappingSubI(end, start, M)
             max   == -1
             zone  == max - RemI(max, range)
         IN  Cons("Bounded", start, range, zone)

\* impl Rand<RangeFull>: rand
StreamRandFull == Full

\* Gen::rand(dist) as gen and gen_iter call it
StreamRand(t, s, l, h) ==
    LET M == Modulus(t) IN
    CASE t = "u32" /\ s = "Full"     -> StreamRandFull
      [] t = "u32" /\ s = "HalfOpen" -> StreamRandRangeU32(l, h, M)
      [] t = "i64" /\ s = "Full"     -> StreamRandFull
      [] t = "i64" /\ s = "HalfOpen" -> StreamRandRangeI64(l, h, M)

\* impl RandStream<u32> for IntegerStreamBounded<u32> / IntegerStreamFull<u32>:
\* next, one pass of its loop
StreamNextU32(c, v, M) ==
    IF c.tag = "Full" THEN Val(v)
    ELSE IF v < c.accept_zone
         THEN Val(WrappingAddU(c.low, v % c.range, M))
         ELSE Rej

\* mutant of StreamNextI64: the raw word is compared as a signed word
StreamNextI64Signed(c, v, M) ==
    IF c.tag = "Full" THEN Val(AsI(v, M))
    ELSE LET range == AsU(c.range, M)
         IN  IF AsI(v, M) < c.accept_zone
             THEN Val(WrappingAddI(c.low, AsI(v % range, M), M))
             ELSE Rej

\* impl RandStream<i64> for IntegerStreamBounded<i64> / IntegerStreamFull<i64>:
\* next, one pass of its loop
StreamNextI64(c, v, M) ==
    IF c.tag = "Full" THEN Val(AsI(v, M))
    ELSE LET zone  == AsU(c.accept_zone, M)
             range == AsU(c.range, M)
         IN  IF v < zone
             THEN Val(WrappingAddI(c.low, AsI(v % range, M), M))
             ELSE Rej

StreamNext(t, c, v) ==
    LET M == Modulus(t) IN
    CASE t = "u32" -> StreamNextU32(c, v, M)
      [] t = "i64" -> StreamNextI64(c, v, M)

\* ---- encoding C: typeparam.rs -------------------------------------------
\* Random::gen recomputes its locals on every call: the part before the loop
\* gives Bounded(start, range_, zone), Full (the early `return rng.gen()`)
\* or a panic; the loop then makes one pass per raw word.

\* impl Random<Range<u32>> for u32, before the loop
TypeparamPreRangeU32(start, end, M) ==
    IF ~(start < end) THEN Panicked
    ELSE LET range_ == end - start
             max    == MaxU(M)
             zone   == max - (max % range_)
         IN  Cons("Bounded", start, range_, zone)

\* impl Random<RangeTo<u32>> for u32
TypeparamPreRangeToU32(end, M) == TypeparamPreRangeU32(0, end, M)

\* impl Random<RangeFrom<u32>> for u32, before the loop
TypeparamPreRangeFromU32(start, M) ==
    IF start = 0 THEN Full
    ELSE LET range_ == NegU(start, M)
             max    == MaxU(M)
             zone   == max - (max % range_)
         IN  Cons("Bounded", start, range_, zone)

\* impl Random<Range<i64>> for i64, before the loop
TypeparamPreRangeI64(start, end, M) ==
    IF ~(start < end) THEN Panicked
    ELSE LET range_ == AsU(WrappingSubI(end, start, M), M)
             max    == MaxU(M)
             zone   == max - (max % range_)
         IN  Cons("Bounded", start, range_, zone)

\* impl Random<RangeFrom<i64>> for i64, before the loop; the guard compares
\* with -::std::i64::MIN, a negation that overflows
TypeparamPreRangeFromI64(start, M, chk) ==
    LET guard == NegI(MinI(M), M, chk) IN
    IF ~guard.ok THEN Panicked
    ELSE IF start = guard.v THEN Full
    ELSE LET neg    == NegI(WrappingAddI(MinI(M), start, M), M, chk)
             range_ == AsU(neg.v, M)
             max    == MaxU(M)
             zone   == max - (max % range_)
         IN  IF ~neg.ok THEN Panicked
             ELSE Cons("Bounded", start, range_, zone)

\* impl Random<Range<f64>> for f64: the assert
TypeparamPreRangeF64(start, end) ==
    IF ~(start < end) THEN Panicked ELSE Cons("FloatSome", start, end, 0)

TypeparamPre(t, s, l, h, chk) ==
    LET M == Modulus(t) IN
    CASE t = "u32" /\ s = "Full"     -> Full
      [] t = "u32" /\ s = "HalfOpen" -> TypeparamPreRangeU32(l, h, M)
      [] t = "u32" /\ s = "From"     -> TypeparamPreRangeFromU32(l, M)
      [] t = "u32" /\ s = "To"       -> TypeparamPreRangeToU32(h, M)
      [] t = "i64" /\ s = "Full"     -> Full
      [] t = "i64" /\ s = "HalfOpen" -> TypeparamPreRangeI64(l, h, M)
      [] t = "i64" /\ s = "From"     -> TypeparamPreRangeFromI64(l, M, chk)
      [] t = "f64" /\ s = "Full"     -> Cons("FloatNone", 0, 0, 0)
      [] t = "f64" /\ s = "HalfOpen" -> TypeparamPreRangeF64(l, h)

\* mutant of TypeparamPassU32: the accepted word is added without `% range_`
TypeparamPassU32NoRem(c, v, M, chk) ==
    IF c.tag = "Full" THEN Val(v)
    ELSE IF v < c.accept_zone
         THEN LET sum == AddU(c.low, v, M, chk)
              IN  IF sum.ok THEN Val(sum.v) ELSE Fault
         ELSE Rej

\* u32 loops of Range<u32> and RangeFrom<u32>: `range.start + (v % range_)`
\* is a plain addition
TypeparamPassU32(c, v, M, chk) ==
    IF c.tag = "Full" THEN Val(v)
    ELSE IF v < c.accept_zone
         THEN LET sum == AddU(c.low, v % c.range, M, chk)
              IN  IF sum.ok THEN Val(sum.v) ELSE Fault
         ELSE Rej

\* i64 loops of Range<i64> and RangeFrom<i64>
TypeparamPassI64(c, v, M) ==
    IF c.tag = "Full" THEN Val(AsI(v, M))
    ELSE IF v < c.accept_zone
         THEN Val(WrappingAddI(c.low, AsI(v % c.range, M), M))
         ELSE Rej

\* f64: range.start + rng.gen() * (range.end - range.start), or rng.gen()
TypeparamPassF64(c, v, M) ==
    IF c.tag = "FloatNone" THEN Val(v)
    ELSE Val(c.low * M + v * (c.range - c.low))

TypeparamPass(t, c, v, chk) ==
    LET M == Modulus(t) IN
    CASE t = "u32" -> TypeparamPassU32(c, v, M, chk)
      [] t = "i64" -> TypeparamPassI64(c, v, M)
      [] t = "f64" -> TypeparamPassF64(c, v, M)

\* ---- the runners --------------------------------------------------------
\* A runner is an encoding used through `gen` (scalar draws on its clone of
\* the entropy source) or through `gen_iter` (an iterator owning its clone).
Order == << <<"assoc", "gen">>, <<"assoc", "iter">>,
            <<"stream", "gen">>, <<"stream", "iter">>,
            <<"typeparam", "gen">>, <<"typeparam", "iter">> >>
NRunners == Len(Order)
Runners == {Order[i] : i \in 1..NRunners}
\* the position of runner r in Order
Index(r) == (CASE r[1] = "assoc" -> 1 [] r[1] = "stream" -> 3 [] OTHER -> 5)
            + (IF r[2] = "gen" THEN 0 ELSE 1)

\* the impls that exist for target type t and range shape s in encoding e
Supports(e, t, s) ==
    CASE e = "assoc"     -> \/ t = "u32" /\ s \in {"Full", "HalfOpen", "From", "To"}
                            \/ t = "i64" /\ s \in {"Full", "HalfOpen", "From"}
                            \/ t = "f64" /\ s \in {"Full", "HalfOpen"}
      [] e = "stream"    -> t \in {"u32", "i64"} /\ s \in {"Full", "HalfOpen"}
      [] e = "typeparam" -> \/ t = "u32" /\ s \in {"Full", "HalfOpen", "From", "To"}
                            \/ t = "i64" /\ s \in {"Full", "HalfOpen", "From"}
                            \/ t = "f64" /\ s \in {"Full", "HalfOpen"}

\* raw words the entropy source yields for target type t (for f64: the
\* numerators of the uniform float in [0,1))
Words(t) == 0 .. Modulus(t) - 1

\* range endpoints of target type t
Ends(t) == CASE t = "u32" -> 0 .. MaxU(Modulus(t))
             [] t = "i64" -> MinI(Modulus(t)) .. MaxI(Modulus(t))
             [] t = "f64" -> -F64End .. F64End

Shapes(t) == CASE t = "u32" -> {"Full", "HalfOpen", "From", "To"}
               [] t = "i64" -> {"Full", "HalfOpen", "From"}
               [] t = "f64" -> {"Full", "HalfOpen"}

\* The builds that are told apart: overflow checks change only the unary
\* minus on i64 (RangeFrom<i64>) and the plain `+` on u32; the other draws
\* contain neither and run the same in both builds.
Builds(t, s) == IF t = "u32" \/ (t = "i64" /\ s = "From") THEN BOOLEAN ELSE {FALSE}

Alive(p, r) == p[r] \notin {"off", "panic"}

\* the next runner after position t that still runs, or NRunners + 1
RECURSIVE Advance(_, _)
Advance(t, p) ==
    IF t >= NRunners THEN NRunners + 1
    ELSE IF Alive(p, Order[t + 1]) THEN t + 1
    ELSE Advance(t + 1, p)

Init ==
    /\ ty \in {"u32", "i64", "f64"}
    /\ shape \in Shapes(ty)
    /\ lo \in (IF shape \in {"HalfOpen", "From"} THEN Ends(ty) ELSE {0})
    /\ hi \in (IF shape \in {"HalfOpen", "To"} THEN Ends(ty) ELSE {0})
    /\ checked \in Builds(ty, shape)
    /\ round = 0
    /\ word = 0
    /\ turn = 0
    /\ pc = [r \in Runners |->
               IF ~Supports(r[1], ty, shape) THEN "off"
               ELSE IF r[2] = "gen" THEN "ready" ELSE "new"]
    /\ cons = [r \in Runners |-> NoCons]
    /\ ev = [r \in Runners |-> NoEv]
    /\ nout = [r \in Runners |-> 0]
    /\ nread = [r \in Runners |-> 0]

\* The entropy source: every clone yields v as its next word, and the
\* runners that still run take their turns on it.
NextWord ==
    /\ turn = 0
    /\ round < MaxWords
    /\ {r \in Runners : Alive(pc, r)} # {}
    /\ \E v \in Words(ty) : word' = v
    /\ round' = round + 1
    /\ turn' = Advance(0, pc)
    /\ UNCHANGED <<ty, shape, lo, hi, checked, pc, cons, ev, nout, nread>>

\* The callers take what the round returned (the benches' black_box(x) and
\* loop bodies): the round is over once every runner has made its pass.
EndRound ==
    /\ turn = NRunners + 1
    /\ turn' = 0
    /\ word' = 0
    /\ ev' = [r \in Runners |-> IF pc[r] = "panic" THEN ev[r] ELSE NoEv]
    /\ UNCHANGED <<ty, shape, lo, hi, checked, round, pc, cons, nout, nread>>

\* gen_iter in runner r: the iterator is built around constraint c, unless
\* building c panics
Build(r, c) ==
    /\ turn = Index(r)
    /\ pc[r] = "new"
    /\ IF c.tag = "Panic"
       THEN /\ pc' = [pc EXCEPT ![r] = "panic"]
            /\ ev' = [ev EXCEPT ![r] = Fault]
            /\ turn' = Advance(turn, pc')
            /\ cons' = cons
       ELSE /\ pc' = [pc EXCEPT ![r] = "ready"]
            /\ cons' = [cons EXCEPT ![r] = c]
            /\ UNCHANGED <<ev, turn>>
    /\ UNCHANGED <<ty, shape, lo, hi, checked, round, word, nout, nread>>

\* runner r takes the current word from its clone of the entropy source and
\* its loop makes one pass with outcome e: a value is returned, or the word
\* is discarded and the loop needs another word
Pass(r, e) ==
    /\ nread' = [nread EXCEPT ![r] = @ + 1]
    /\ ev' = [ev EXCEPT ![r] = e]
    /\ nout' = [nout EXCEPT ![r] = IF e.k = "val" THEN @ + 1 ELSE @]
    /\ pc' = [pc EXCEPT ![r] = CASE e.k = "val" -> "ready"
                                 [] e.k = "rej" -> "draw"
                                 [] OTHER       -> "panic"]
    /\ turn' = Advance(turn, pc')
    /\ UNCHANGED <<ty, shape, lo, hi, checked, round, word>>

\* a draw starts in runner r: the code before the loop leaves constraint c
\* (or panics), then the loop makes its first pass, with outcome e
Call(r, c, e) ==
    /\ turn = Index(r)
    /\ pc[r] = "ready"
    /\ IF c.tag = "Panic"
       THEN /\ pc' = [pc EXCEPT ![r] = "panic"]
            /\ ev' = [ev EXCEPT ![r] = Fault]
            /\ turn' = Advance(turn, pc')
            /\ UNCHANGED <<ty, shape, lo, hi, checked, round, word, cons, nout, nread>>
       ELSE /\ cons' = [cons EXCEPT ![r] = c]
            /\ Pass(r, e)

\* the loop of a draw already running in runner r makes another pass
Loop(r, e) ==
    /\ turn = Index(r)
    /\ pc[r] = "draw"
    /\ cons' = cons
    /\ Pass(r, e)

\* assoc::gen: Random::gen(&constraint.into(), rng)
AssocGen ==
    LET r == <<"assoc", "gen">>
        c == AssocInto(ty, shape, lo, hi, checked)
    IN  Call(r, c, AssocRandomGen(ty, c, word))

\* assoc::gen_iter
AssocGenIter ==
    Build(<<"assoc", "iter">>, AssocInto(ty, shape, lo, hi, checked))

\* mutant of AssocNext: next draws without the iterator's constraint
AssocNextUnconstrained ==
    LET r == <<"assoc", "iter">>
    IN  Call(r, cons[r], AssocRandomGen(ty, AssocInto(ty, "Full", 0, 0, checked), word))

\* assoc::GenIter::next: Random::gen(&self.constraint, &mut self.rng)
AssocNext ==
    LET r == <<"assoc", "iter">>
    IN  Call(r, cons[r], AssocRandomGen(ty, cons[r], word))

\* assoc::Random::gen: a further pass of its loop, in either runner
AssocLoop ==
    \E m \in {"gen", "iter"} :
        LET r == <<"assoc", m>>
        IN  Loop(r, AssocRandomGen(ty, cons[r], word))

\* stream::gen: Gen::rand(dist).next(rng)
StreamGen ==
    LET r == <<"stream", "gen">>
        c == StreamRand(ty, shape, lo, hi)
    IN  Call(r, c, StreamNext(ty, c, word))

\* stream::gen_iter
StreamGenIter ==
    Build(<<"stream", "iter">>, StreamRand(ty, shape, lo, hi))

\* stream::GenIter::next: self.stream.next(&mut self.rng)
StreamIterNext ==
    LET r == <<"stream", "iter">>
    IN  Call(r, cons[r], StreamNext(ty, cons[r], word))

\* stream::RandStream::next: a further pass of its loop, in either runner
StreamLoop ==
    \E m \in {"gen", "iter"} :
        LET r == <<"stream", m>>
        IN  Loop(r, StreamNext(ty, cons[r], word))

\* typeparam::gen: Random::gen(&constraint, rng)
TypeparamGen ==
    LET r == <<"typeparam", "gen">>
        c == TypeparamPre(ty, shape, lo, hi, checked)
    IN  Call(r, c, TypeparamPass(ty, c, word, checked))

\* typeparam::gen_iter: the range descriptor is stored as it is
TypeparamGenIter ==
    Build(<<"typeparam", "iter">>, Cons("Descr", lo, hi, 0))

\* typeparam::GenIter::next: Random::gen(&self.constraint, &mut self.rng)
TypeparamNext ==
    LET r == <<"typeparam", "iter">>
        c == TypeparamPre(ty, shape, lo, hi, checked)
    IN  Call(r, c, TypeparamPass(ty, c, word, checked))

\* typeparam::Random::gen: a further pass of its loop, in either runner
TypeparamLoop ==
    \E m \in {"gen", "iter"} :
        LET r == <<"typeparam", m>>
        IN  Loop(r, TypeparamPass(ty, cons[r], word, checked))

Next ==
    \/ NextWord \/ EndRound
    \/ AssocGen \/ AssocGenIter \/ AssocNext \/ AssocLoop
    \/ StreamGen \/ StreamGenIter \/ StreamIterNext \/ StreamLoop
    \/ TypeparamGen \/ TypeparamGenIter \/ TypeparamNext \/ TypeparamLoop

Spec == Init /\ [][Next]_vars

\* the shape of the state
TypeOK ==
    /\ ty \in {"u32", "i64", "f64"}
    /\ shape \in Shapes(ty)
    /\ lo \in Ends(ty) \cup {0}
    /\ hi \in Ends(ty) \cup {0}
    /\ checked \in BOOLEAN
    /\ round \in 0..MaxWords
    /\ word \in Words(ty)
    /\ turn \in 0..NRunners + 1
    /\ \A r \in Runners :
          /\ pc[r] \in {"off", "new", "ready", "draw", "panic"}
          /\ cons[r].tag \in {"NoCons", "Full", "Bounded", "FloatNone", "FloatSome", "Descr"}
          /\ ev[r].k \in {"none", "val", "rej", "panic"}
          /\ nout[r] \in 0..round
          /\ nread[r] \in 0..round
          /\ nout[r] <= nread[r]

\* ---- what the claims speak about ----------------------------------------
IntTy == ty \in {"u32", "i64"}
\* runner r has made its pass on the current word
Acted(r) == ev[r].k \in {"val", "rej"}
\* runner r has finished its turn of the current round (a pass or a panic)
Turned(r) == ev[r].k # "none"
\* width and accept_zone of r's bounded constraint, read as unsigned words
WidthU(r) == AsU(cons[r].range, Modulus(ty))
ZoneU(r) == AsU(cons[r].accept_zone, Modulus(ty))
\* the number of raw words r's bounded constraint rejects
Rejected(r) == Modulus(ty) - ZoneU(r)
\* the largest value of the target type
MaxT == IF ty = "u32" THEN MaxU(Modulus(ty)) ELSE MaxI(Modulus(ty))
\* the width of the requested interval, as a mathematical integer
MathWidth == CASE shape = "HalfOpen" -> hi - lo
               [] shape = "To"       -> hi
               [] shape = "From"     -> MaxT - lo + 1
               [] OTHER              -> Modulus(ty)
\* MAX - (MAX mod width) for the requested interval
MathZone == MaxU(Modulus(ty)) - (MaxU(Modulus(ty)) % MathWidth)
\* the interval is empty
EmptyInterval == (shape = "HalfOpen" /\ hi <= lo) \/ (shape = "To" /\ hi = 0)
\* the outcome of a pass of r's loop on raw word v under r's constraint
Outcome(r, v) ==
    CASE r[1] = "assoc"     -> AssocRandomGen(ty, cons[r], v)
      [] r[1] = "stream"    -> StreamNext(ty, cons[r], v)
      [] r[1] = "typeparam" -> TypeparamPass(ty, cons[r], v, checked)

\* C1: in every encoding, for u32 and i64 and every HalfOpen(lo, hi) with
\* lo < hi, every value returned by gen or by the iterator's next satisfies
\* lo <= result < hi in the target type's own ordering.
C1_Bounded ==
    \A r \in Runners :
        (IntTy /\ shape = "HalfOpen" /\ lo < hi /\ ev[r].k = "val")
            => (lo <= ev[r].x /\ ev[r].x < hi)

\* an i64 interval across zero whose width wraps the signed range: assoc and
\* typeparam have returned a second value, a negative one
C1_Witness ==
    /\ ty = "i64" /\ shape = "HalfOpen" /\ lo < 0 /\ hi > 0
    /\ hi - lo > MaxI(Modulus(ty))
    /\ \A r \in {<<"assoc", "iter">>, <<"typeparam", "gen">>} :
          ev[r].k = "val" /\ ev[r].x < 0 /\ nout[r] = 2

\* C2: on the same raw words and the same range (Unbounded, or HalfOpen with
\* lo < hi) the three encodings return the same values and consume the same
\* number of raw words, for u32 and i64.
C2_SameOutputs ==
    \A r1, r2 \in Runners :
        (/\ IntTy
         /\ shape = "Full" \/ (shape = "HalfOpen" /\ lo < hi)
         /\ r1[2] = r2[2]
         /\ Turned(r1) /\ Turned(r2))
            => (ev[r1] = ev[r2] /\ nout[r1] = nout[r2] /\ nread[r1] = nread[r2])

\* C3: every draw completes: a bounded draw that is fed a raw word below
\* MAX - (MAX mod width) returns on that word; HalfOpen(-5, 5) over i64 fed
\* the raw word 7 returns 2.
C3_DrawCompletes ==
    \A r \in Runners :
        (IntTy /\ cons[r].tag = "Bounded" /\ Acted(r) /\ word < MathZone)
            => /\ ev[r].k = "val"
               /\ (ty = "i64" /\ shape = "HalfOpen" /\ lo = -5 /\ hi = 5 /\ word = 7)
                      => ev[r].x = 2

\* C4: no modulo bias: under every bounded constraint built from
\* HalfOpen(lo, hi), every x in [lo, hi) is the result of exactly
\* accept_zone / width of the accepted raw words, and of at least one.
C4_NoBias ==
    \A r \in Runners :
        (IntTy /\ shape = "HalfOpen" /\ cons[r].tag = "Bounded")
            => \A x \in lo .. hi - 1 :
                  LET pre == {v \in Words(ty) : v < ZoneU(r) /\ Outcome(r, v) = Val(x)}
                  IN  /\ Cardinality(pre) = ZoneU(r) \div WidthU(r)
                      /\ pre # {}

\* C5: preprocessing: for every HalfOpen(lo, hi) with lo < hi the computed
\* width is hi - lo in the unsigned image, and accept_zone, read as an
\* unsigned word, is divisible by width with accept_zone + (MAX mod width) = MAX.
C5_Preprocessing ==
    \A r \in Runners :
        (IntTy /\ shape = "HalfOpen" /\ lo < hi /\ cons[r].tag = "Bounded")
            => /\ WidthU(r) = (hi - lo) % Modulus(ty)
               /\ ZoneU(r) % WidthU(r) = 0
               /\ ZoneU(r) + (MaxU(Modulus(ty)) % WidthU(r)) = MaxU(Modulus(ty))

\* C6: an empty interval (HalfOpen with hi <= lo, To(0)) aborts gen and
\* gen_iter before a raw word is consumed and before an iterator is returned;
\* no value is produced from it.
C6_EmptyDetected ==
    \A r \in Runners :
        (EmptyInterval /\ pc[r] # "off")
            => /\ nread[r] = 0
               /\ nout[r] = 0
               /\ r[2] = "iter" => pc[r] \in {"new", "panic"}

\* C7: in every encoding and for every range, the elements of gen_iter are,
\* in order, the results of successive gen calls on a clone of the entropy
\* source, and both have consumed the same raw words.
C7_IterEqualsGen ==
    \A e \in {"assoc", "stream", "typeparam"} :
        LET g == <<e, "gen">>
            i == <<e, "iter">>
        IN  (Turned(g) /\ Turned(i))
               => (ev[g] = ev[i] /\ nout[g] = nout[i] /\ nread[g] = nread[i])

\* two elements taken from the iterator of each encoding, over a bounded range
C7_Witness ==
    /\ shape = "HalfOpen" /\ ty = "u32"
    /\ \A e \in {"assoc", "stream", "typeparam"} :
          nout[<<e, "iter">>] = 2 /\ nout[<<e, "gen">>] = 2 /\ ev[<<e, "iter">>].k = "val"

\* C8: From(lo) in assoc and typeparam: on u32 every result is in
\* [lo, 2^32 - 1]; on i64, for any lo, the constraint is built without an
\* arithmetic fault, its width is 2^63 - lo in the unsigned image, and every
\* result is in [lo, i64::MAX].
C8_From ==
    \A r \in Runners :
        (IntTy /\ shape = "From" /\ pc[r] # "off")
            => /\ ev[r].k = "val" => (lo <= ev[r].x /\ ev[r].x <= MaxT)
               /\ ty = "i64" =>
                     /\ pc[r] # "panic"
                     /\ cons[r].tag = "Bounded" =>
                           WidthU(r) = (MaxT + 1 - lo) % Modulus(ty)

\* C9: From(0) on u32 and From(i64::MIN) on i64, in assoc and typeparam, take
\* the raw-word path: each draw consumes one raw word and returns it
\* reinterpreted in the target type; nothing is rejected, no width is zero.
C9_DegenerateFrom ==
    \A r \in Runners :
        (/\ shape = "From" /\ pc[r] # "off"
         /\ (ty = "u32" /\ lo = 0) \/ (ty = "i64" /\ lo = MinI(Modulus(ty))))
            => /\ pc[r] \notin {"panic", "draw"}
               /\ cons[r].tag # "Bounded"
               /\ nread[r] = nout[r]
               /\ Turned(r) =>
                     ev[r] = Val(IF ty = "u32" THEN word ELSE AsI(word, Modulus(ty)))

LimbBits == 16
Limb == Pow2(LimbBits)
W32(h, l) == <<h, l>>
\* the u32 of a number below 2^31
U32Of(n) == W32(n \div Limb, n % Limb)
\* `!0`
MaxW32 == W32(Limb - 1, Limb - 1)
\* `<` on u32
LtW32(a, b) == a[1] < b[1] \/ (a[1] = b[1] /\ a[2] < b[2])
\* `-` on u32 where it cannot underflow, and wrapping_sub
SubW32(a, b) ==
    LET borrow == IF a[2] < b[2] THEN 1 ELSE 0
    IN  W32((a[1] + Limb - b[1] - borrow) % Limb, (a[2] + Limb - b[2]) % Limb)
\* wrapping_add on u32
WrappingAddW32(a, b) ==
    LET l == a[2] + b[2]
    IN  W32((a[1] + b[1] + (l \div Limb)) % Limb, l % Limb)
\* plain `+` on u32: overflow panics with overflow checks, wraps without
AddW32(a, b, chk) ==
    LET carry == a[1] + b[1] + ((a[2] + b[2]) \div Limb) >= Limb
    IN  [ok |-> ~(carry /\ chk), v |-> WrappingAddW32(a, b)]
\* the divisors `%` is computed for: those of at most 2^15
Narrow(d) == d[1] = 0 /\ 0 < d[2] /\ d[2] <= Limb \div 2
\* mutant of RemW32: the upper half of the dividend is dropped
RemW32Low(a, d) ==
    CASE Narrow(d) -> U32Of(a[2] % d[2])
\* `%` on u32, by a divisor of at most 2^15:
\* (h * 2^16 + l) mod d = ((h mod d) * 2^16 + l) mod d
RemW32(a, d) ==
    CASE Narrow(d) -> U32Of(((a[1] % d[2]) * Limb + a[2]) % d[2])

\* impl Into<IntegerConstraint<u32>> for Range<u32>
AssocIntoRangeW32(start, end) ==
    IF ~LtW32(start, end) THEN Panicked
    ELSE LET range == SubW32(end, start)
             max   == MaxW32
             zone  == SubW32(max, RemW32(max, range))
         IN  Cons("Bounded", start, range, zone)

\* impl Random for u32: Random::gen, one pass of its loop
AssocGenW32(c, v) ==
    IF c.tag = "Full" THEN Val(v)
    ELSE IF LtW32(v, c.accept_zone)
         THEN Val(WrappingAddW32(c.low, RemW32(v, c.range)))
         ELSE Rej

\* impl Rand<Range<u32>> for u32: rand
StreamRandRangeW32(start, end) ==
    IF ~LtW32(start, end) THEN Panicked
    ELSE LET range == SubW32(end, start)
             max   == MaxW32
             zone  == SubW32(max, RemW32(max, range))
         IN  Cons("Bounded", start, range, zone)

\* impl RandStream<u32> for IntegerStreamBounded<u32>: next, one pass of its loop
StreamNextW32(c, v) ==
    IF c.tag = "Full" THEN Val(v)
    ELSE IF LtW32(v, c.accept_zone)
         THEN Val(WrappingAddW32(c.low, RemW32(v, c.range)))
         ELSE Rej

\* impl Random<Range<u32>> for u32, before the loop
TypeparamPreRangeW32(start, end) ==
    IF ~LtW32(start, end) THEN Panicked
    ELSE LET range_ == SubW32(end, start)
             max    == MaxW32
             zone   == SubW32(max, RemW32(max, range_))
         IN  Cons("Bounded", start, range_, zone)

\* the u32 loop of Range<u32>: `range.start + (v % range_)` is a plain addition
TypeparamPassW32(c, v, chk) ==
    IF c.tag = "Full" THEN Val(v)
    ELSE IF LtW32(v, c.accept_zone)
         THEN LET sum == AddW32(c.low, RemW32(v, c.range), chk)
              IN  IF sum.ok THEN Val(sum.v) ELSE Fault
         ELSE Rej

\* range endpoints and raw words of the true-width runs: the benches' 4..321,
\* its neighbours, and the words around the accept zones and 2^16
Starts32 == {U32Of(0), U32Of(4), W32(Limb - 1, Limb - 536)}
Ends32 == {U32Of(4), U32Of(321), MaxW32}
Ranges32 == {p \in Starts32 \X Ends32 :
                ~LtW32(p[1], p[2]) \/ Narrow(SubW32(p[2], p[1]))}
Words32 == {U32Of(0), U32Of(100), U32Of(Limb), W32(Limb - 1, Limb - 233),
            W32(Limb - 1, Limb - 232), W32(Limb - 1, Limb - 38),
            W32(Limb - 1, Limb - 37), MaxW32}

Init32 ==
    /\ ty = "u32"
    /\ shape = "HalfOpen"
    /\ \E p \in Ranges32 : lo = p[1] /\ hi = p[2]
    /\ checked \in BOOLEAN
    /\ round = 0
    /\ word = U32Of(0)
    /\ turn = 0
    /\ pc = [r \in Runners |-> IF r[2] = "gen" THEN "ready" ELSE "new"]
    /\ cons = [r \in Runners |-> NoCons]
    /\ ev = [r \in Runners |-> NoEv]
    /\ nout = [r \in Runners |-> 0]
    /\ nread = [r \in Runners |-> 0]

\* the entropy source, at the true width
NextWord32 ==
    /\ turn = 0
    /\ round < MaxWords
    /\ {r \in Runners : Alive(pc, r)} # {}
    /\ \E v \in Words32 : word' = v
    /\ round' = round + 1
    /\ turn' = Advance(0, pc)
    /\ UNCHANGED <<ty, shape, lo, hi, checked, pc, cons, ev, nout, nread>>

\* the callers take what the round returned
EndRound32 ==
    /\ turn = NRunners + 1
    /\ turn' = 0
    /\ word' = U32Of(0)
    /\ ev' = [r \in Runners |-> IF pc[r] = "panic" THEN ev[r] ELSE NoEv]
    /\ UNCHANGED <<ty, shape, lo, hi, checked, round, pc, cons, nout, nread>>

\* assoc::gen
AssocGen32 ==
    LET r == <<"assoc", "gen">>
        c == AssocIntoRangeW32(lo, hi)
    IN  Call(r, c, AssocGenW32(c, word))

\* assoc::gen_iter
AssocGenIter32 ==
    Build(<<"assoc", "iter">>, AssocIntoRangeW32(lo, hi))

\* assoc::GenIter::next
AssocNext32 ==
    LET r == <<"assoc", "iter">>
    IN  Call(r, cons[r], AssocGenW32(cons[r], word))

\* assoc::Random::gen: a further pass of its loop, in either runner
AssocLoop32 ==
    \E m \in {"gen", "iter"} :
        LET r == <<"assoc", m>>
        IN  Loop(r, AssocGenW32(cons[r], word))

\* stream::gen
StreamGen32 ==
    LET r == <<"stream", "gen">>
        c == StreamRandRangeW32(lo, hi)
    IN  Call(r, c, StreamNextW32(c, word))

\* stream::gen_iter
StreamGenIter32 ==
    Build(<<"stream", "iter">>, StreamRandRangeW32(lo, hi))

\* stream::GenIter::next
StreamIterNext32 ==
    LET r == <<"stream", "iter">>
    IN  Call(r, cons[r], StreamNextW32(cons[r], word))

\* stream::RandStream::next: a further pass of its loop, in either runner
StreamLoop32 ==
    \E m \in {"gen", "iter"} :
        LET r == <<"stream", m>>
        IN  Loop(r, StreamNextW32(cons[r], word))

\* typeparam::gen
TypeparamGen32 ==
    LET r == <<"typeparam", "gen">>
        c == TypeparamPreRangeW32(lo, hi)
    IN  Call(r, c, TypeparamPassW32(c, word, checked))

\* typeparam::GenIter::next
TypeparamNext32 ==
    LET r == <<"typeparam", "iter">>
        c == TypeparamPreRangeW32(lo, hi)
    IN  Call(r, c, TypeparamPassW32(c, word, checked))

\* typeparam::Random::gen: a further pass of its loop, in either runner
TypeparamLoop32 ==
    \E m \in {"gen", "iter"} :
        LET r == <<"typeparam", m>>
        IN  Loop(r, TypeparamPassW32(cons[r], word, checked))

Next32 ==
    \/ NextWord32 \/ EndRound32
    \/ AssocGen32 \/ AssocGenIter32 \/ AssocNext32 \/ AssocLoop32
    \/ StreamGen32 \/ StreamGenIter32 \/ StreamIterNext32 \/ StreamLoop32
    \/ TypeparamGen32 \/ TypeparamGenIter \/ TypeparamNext32 \/ TypeparamLoop32

Spec32 == Init32 /\ [][Next32]_vars

\* the draw of the benches: HalfOpen(4, 321) over u32
Bench32 == lo = U32Of(4) /\ hi = U32Of(321)
\* runner r holds a bounded constraint of width w and accept zone z
Holds32(r, w, z) ==
    cons[r].tag = "Bounded" => (cons[r].range = w /\ cons[r].accept_zone = z)
\* runner r has rejected raw word 4294967259, or returned 104 on raw word 100
Draws32(r) ==
    /\ (Turned(r) /\ word = W32(65535, 65499)) => (ev[r].k = "rej" /\ pc[r] = "draw")
    /\ (Turned(r) /\ word = U32Of(100)) => (ev[r].k = "val" /\ ev[r].x = U32Of(104))

\* C11 as stated: for HalfOpen(4, 321) over u32 the preprocessing yields
\* width = 317 and accept_zone = 4294967295 - 37 = 4294967258 (65535 * 2^16 +
\* 65498), raw word 4294967259 is rejected and raw word 100 returns 104.
C11_Zone37 ==
    Bench32 => \A r \in Runners :
        Holds32(r, U32Of(317), W32(65535, 65498)) /\ Draws32(r)

\* C11, amended: for HalfOpen(4, 321) over u32 the preprocessing yields
\* width = 317 and accept_zone = 4294967295 - 231 = 4294967064 (65535 * 2^16 +
\* 65304); a draw whose entropy feeds raw word 4294967259 rejects it and goes
\* on to the next word, and raw word 100 returns 104.
C11_Zone231 ==
    Bench32 => \A r \in Runners :
        Holds32(r, U32Of(317), W32(65535, 65304)) /\ Draws32(r)

\* every runner has read two words for HalfOpen(4, 321), discarded the first
\* and returned 104 on the second, raw word 100
C11_Witness ==
    /\ Bench32
    /\ round = 2
    /\ word = U32Of(100)
    /\ \A r \in Runners :
        /\ cons[r].tag = "Bounded"
        /\ cons[r].accept_zone = W32(65535, 65304)
        /\ nread[r] = 2
        /\ nout[r] = 1
        /\ ev[r].k = "val"
        /\ ev[r].x = U32Of(104)

\* the step is a pass of runner r's loop under a bounded integer constraint
Passing(r) ==
    /\ IntTy
    /\ turn = Index(r)
    /\ pc[r] \in {"ready", "draw"}
    /\ cons'[r].tag = "Bounded"
\* the rejection step on the current word, for runner r
RejectionStep(r) ==
    LET M     == Modulus(ty)
        zone  == AsU(cons'[r].accept_zone, M)
        width == AsU(cons'[r].range, M)
        sum   == WrappingAddU(AsU(cons'[r].low, M), word % width, M)
    IN  /\ nread'[r] = nread[r] + 1
        /\ word' = word
        /\ round' = round
        /\ IF word >= zone
           THEN /\ ev'[r] = Rej
                /\ pc'[r] = "draw"
                /\ nout'[r] = nout[r]
           ELSE /\ ev'[r] = Val(IF ty = "u32" THEN sum ELSE AsI(sum, M))
                /\ pc'[r] = "ready"
                /\ nout'[r] = nout[r] + 1

\* C12: every pass of a bounded integer draw takes exactly one raw word v
\* from the entropy source; with v >= accept_zone (compared unsigned) the
\* word is discarded and the draw goes on, with v < accept_zone the draw
\* ends and returns low wrap-added to (v mod width), reinterpreted in the
\* target type; outside its own passes a runner takes no word, so that a
\* draw consumes its discarded words and one more.
C12_RejectionStep ==
    [][\A r \in Runners :
          /\ Passing(r) => RejectionStep(r)
          /\ turn # Index(r) => (nread'[r] = nread[r] /\ nout'[r] = nout[r])]_vars

\* an i64 interval of width 1 below zero: every runner has discarded raw word
\* 2^W - 1 and returned lo on the second word of the same draw
C12_Witness ==
    /\ ty = "i64"
    /\ shape = "HalfOpen"
    /\ lo < 0
    /\ hi = lo + 1
    /\ \A r \in Runners :
        /\ cons[r].tag = "Bounded"
        /\ AsU(cons[r].accept_zone, Modulus(ty)) = MaxU(Modulus(ty))
        /\ nread[r] = 2
        /\ nout[r] = 1
        /\ ev[r] = Val(lo)

\* runner r of typeparam has taken its turn on the current word in a u32 draw
\* for HalfOpen(lo, hi) or From(lo) that got past its preprocessing
PlainAdd(r) ==
    /\ r[1] = "typeparam"
    /\ ty = "u32"
    /\ shape \in {"HalfOpen", "From"}
    /\ cons[r].tag = "Bounded"
    /\ Turned(r)

\* C13: in typeparam's u32 draws for HalfOpen(lo, hi) and From(lo), in the
\* build with overflow checks and in the one without, no pass panics, and for
\* every accepted raw word v the sum start + (v mod width) is at most the
\* largest u32, is the value returned, and is what the wrap-add of assoc and
\* stream returns for the same constraint and word.
C13_PlainAddNeverOverflows ==
    \A r \in Runners :
        PlainAdd(r) =>
            /\ ev[r].k # "panic"
            /\ word < cons[r].accept_zone =>
                LET sum == cons[r].low + (word % cons[r].range)
                IN  /\ sum <= MaxT
                    /\ ev[r] = Val(sum)
                    /\ ev[r] = AssocGenU32(cons[r], word, Modulus(ty))
                    /\ ev[r] = StreamNextU32(cons[r], word, Modulus(ty))

\* the build with overflow checks, From(lo) with lo > 0: typeparam's gen has
\* returned the largest u32, the sum at its upper limit
C13_Witness ==
    LET r == <<"typeparam", "gen">>
    IN  /\ checked
        /\ shape = "From"
        /\ lo > 0
        /\ PlainAdd(r)
        /\ cons[r].low + (word % cons[r].range) = MaxT
        /\ ev[r] = Val(MaxT)

====
